---- MODULE Spec2Model ----
(***************************************************************************)
(* A model of the corrective-RAG chat pipeline (src/pipeline.py) and of    *)
(* the components it sequences: the input classifier, the retriever, the   *)
(* per-document grader, the query rewriter and the response generator.     *)
(*                                                                         *)
(* Text is modelled as a sequence of one-character strings, so that        *)
(* strip(), lower() and string concatenation are computed, not assumed.    *)
(* A language-model, embedding or index call is an input of the step that  *)
(* makes it: its result is drawn from a small set that includes failure.   *)
(*                                                                         *)
(* The graph library is not part of the repository.  Each call site is     *)
(* modelled with the shape of stream() output that the call site itself    *)
(* reads: CRAGPipeline.run reads chunks keyed by node name, while          *)
(* QueryRewritePipeline.run and ResponseGenerationPipeline.run read the    *)
(* fields of the last state.                                               *)
(***************************************************************************)
EXTENDS Integers, Sequences, FiniteSets, TLC

\* ------------------------------------------------------------------ bounds
\* Longest conversation history a caller passes to run.
MaxHistory == 6
\* Most matches the index returns to one search.
MaxMatches == 2
\* Longest query / model output of the rewriter specification.
MaxLen == 2
\* the session's messages list is let grow to this length by "exit" turns
MaxSessionMessages == 9
\* the displayed history is counted up to this many entries
MaxShown == 2

\* ------------------------------------------------------- program constants
\* filter_messages keeps this many turns.
HistoryWindow == 5
\* Mutant: a retry budget one too large.
MaxAttemptsOffByOne == 2 + 1

\* decide_next_step and rewrite_query stop at this many attempts.
MaxAttempts == 2
\* retrieve_documents asks the retriever for this many documents.
TopK == 5
\* the retriever's retry widens the search by this much.
RetryExtraK == 2
\* QueryRewritePipeline.should_rewrite ends at this many inner attempts.
InnerMaxAttempts == 2

\* ------------------------------------------------------------------- text
Suffix == <<" ", "i", "n", " ", "s", "i", "m", "p", "l", "e", " ", "t", "e", "r", "m", "s">>

NoValidResponse == <<"N", "o", " ", "v", "a", "l", "i", "d">>

IsSpace(c) == c = " "

LowerChar(c) == IF c = "Q" THEN "q" ELSE IF c = "R" THEN "r" ELSE c

\* str.lower()
Lower(s) == [i \in 1..Len(s) |-> LowerChar(s[i])]

RECURSIVE LStrip(_)
LStrip(s) == IF s # <<>> /\ IsSpace(Head(s)) THEN LStrip(Tail(s)) ELSE s

RECURSIVE RStrip(_)
RStrip(s) ==
    IF s # <<>> /\ IsSpace(s[Len(s)]) THEN RStrip(SubSeq(s, 1, Len(s) - 1)) ELSE s

\* str.strip()
Strip(s) == RStrip(LStrip(s))

SeqsUpTo(S, n) == UNION {[1..k -> S] : k \in 0..n}

Min(a, b) == IF a < b THEN a ELSE b

\* ------------------------------------------------ results of external calls
\* A completion call either fails (ok = FALSE: service fault or output the
\* parser rejects) or yields a parsed value.
Failed == [ok |-> FALSE, json |-> [error |-> "fault"]]

Parsed(j) == [ok |-> TRUE, json |-> j]

\* What the classification chain can yield: a valid label, a label outside
\* the enumeration, a mapping without the 'type' key, or a failure.
ClassifierResults ==
    {Failed, Parsed([type |-> "question"]), Parsed([type |-> "pleasantry"]),
     Parsed([type |-> "greeting"]), Parsed([label |-> "question"])}

\* What the grading chain can yield for one document.
GraderResults ==
    {Failed, Parsed([grade |-> "relevant"]), Parsed([grade |-> "irrelevant"]),
     Parsed([verdict |-> "relevant"])}

TextFailed == [ok |-> FALSE, text |-> <<>>]

Text(t) == [ok |-> TRUE, text |-> t]

\* What the rewrite chain can yield in a pipeline run: a failure, an echo of
\* the query "q" in another case, another query, and the query "q" itself
\* (an echo in the first rewrite, a return to the original text later).
RewriterResults == {TextFailed, Text(<<"Q", " ">>), Text(<<"r">>), Text(<<"q">>)}

\* What the response chain can yield.
GeneratorResults == {TextFailed, Text(<<"a", "n", "s">>), Text(<<"o", "k">>)}

\* Index matches: one with text and source in its metadata, one with neither.
Matches == {[text |-> "t1", source |-> "s1"], [score |-> "0.5"]}

\* One embed + search round of the retriever.
RetrieverResults(k) ==
    {[embed_ok |-> FALSE, index_ok |-> FALSE, matches |-> <<>>],
     [embed_ok |-> TRUE, index_ok |-> FALSE, matches |-> <<>>]}
    \cup {[embed_ok |-> TRUE, index_ok |-> TRUE, matches |-> m] :
            m \in SeqsUpTo(Matches, Min(k, MaxMatches))}

\* ------------------------------------------------------- input classifier
\* Mutant: a failed classification is reported as its own label.
analyze_input_unknown(r) ==
    IF ~r.ok THEN "unknown"
    ELSE IF "type" \in DOMAIN r.json /\ r.json.type \in {"question", "pleasantry"}
         THEN r.json.type
         ELSE "question"

\* Mutant: the label is returned without being checked against InputType.
analyze_input_unchecked(r) ==
    IF ~r.ok THEN "question"
    ELSE IF "type" \in DOMAIN r.json THEN r.json.type
    ELSE "question"

\* InputAnalyzer.analyze_input
analyze_input(r) ==
    IF ~r.ok THEN "question"
    ELSE IF "type" \in DOMAIN r.json /\ r.json.type \in {"question", "pleasantry"}
         THEN r.json.type
         ELSE "question"

\* -------------------------------------------------------------- retriever
\* The Document built from one match.
ToDocument(m) ==
    [page_content |-> IF "text" \in DOMAIN m THEN m.text ELSE "No content available",
     source |-> IF "source" \in DOMAIN m THEN m.source ELSE "Unknown Source"]

RoundOk(r) == r.embed_ok /\ r.index_ok

\* The retriever retries once, with a wider k, when a search succeeded with
\* no match.
RetrieverRetries(first) == RoundOk(first) /\ first.matches = <<>>

RoundDocs(r) ==
    IF RoundOk(r) THEN [i \in 1..Len(r.matches) |-> ToDocument(r.matches[i])]
    ELSE <<>>

\* Retriever.retrieve_relevant_docs(query, namespace, metadata_filter, k)
retrieve_relevant_docs(first, second) ==
    IF RetrieverRetries(first) THEN RoundDocs(second) ELSE RoundDocs(first)

\* Mutant: the retry is itself allowed to retry.
EmbedCallsRetryAgain(first, second) == IF RetrieverRetries(first) THEN 3 ELSE 1

\* Embedding calls of one retrieve_relevant_docs call.
EmbedCalls(first, second) == IF RetrieverRetries(first) THEN 2 ELSE 1

IndexCallsOf(r) == IF r.embed_ok THEN 1 ELSE 0

\* The except branch of the retriever was taken (in the retry, if any).
RetrievalFailed(first, second) ==
    IF RetrieverRetries(first) THEN ~RoundOk(second) ELSE ~RoundOk(first)

IndexCalls(first, second) ==
    IndexCallsOf(first) + (IF RetrieverRetries(first) THEN IndexCallsOf(second) ELSE 0)

\* ----------------------------------------------------------------- grader
\* Mutant: a relevant document is inserted at the front of the list.
GradeOnePrepend(acc, doc, r) ==
    IF ~r.ok THEN acc
    ELSE IF "grade" \notin DOMAIN r.json THEN acc
    ELSE IF r.json.grade = "relevant" THEN <<doc>> \o acc
    ELSE acc

\* The body of the grading loop for one document: the verdict is read with
\* response["grade"]; a failed call or a missing key raises inside the try
\* and leaves the list as it is.
GradeOne(acc, doc, r) ==
    IF ~r.ok THEN acc
    ELSE IF "grade" \notin DOMAIN r.json THEN acc
    ELSE IF r.json.grade = "relevant" THEN Append(acc, doc)
    ELSE acc

\* Mutant: the try encloses the loop, so the first failed call ends the pass.
RECURSIVE GradeLoopAbort(_, _, _, _)
GradeLoopAbort(docs, results, i, acc) ==
    IF i > Len(docs) THEN acc
    ELSE IF ~results[i].ok \/ "grade" \notin DOMAIN results[i].json THEN acc
    ELSE GradeLoopAbort(docs, results, i + 1, GradeOne(acc, docs[i], results[i]))

RECURSIVE GradeLoop(_, _, _, _)
GradeLoop(docs, results, i, acc) ==
    IF i > Len(docs) THEN acc
    ELSE GradeLoop(docs, results, i + 1, GradeOne(acc, docs[i], results[i]))

\* Mutant: a failed grading call is issued a second time.
RECURSIVE GradeCallLoopRetry(_, _, _, _)
GradeCallLoopRetry(docs, results, i, log) ==
    IF i > Len(docs) THEN log
    ELSE GradeCallLoopRetry(docs, results, i + 1,
             IF results[i].ok THEN Append(log, docs[i])
             ELSE log \o <<docs[i], docs[i]>>)

\* The documents the grading loop passes to grader_chain.invoke, in the
\* order of the calls.
RECURSIVE GradeCallLoop(_, _, _, _)
GradeCallLoop(docs, results, i, log) ==
    IF i > Len(docs) THEN log
    ELSE GradeCallLoop(docs, results, i + 1, Append(log, docs[i]))

\* The grading calls of one CRAGPipeline.grade_documents.
grade_calls(docs, results) ==
    IF docs = <<>> THEN <<>> ELSE GradeCallLoop(docs, results, 1, <<>>)

\* CRAGPipeline.grade_documents: the relevant_docs it returns.
grade_documents(docs, results) ==
    IF docs = <<>> THEN <<>> ELSE GradeLoop(docs, results, 1, <<>>)

\* DocumentGradingPipeline.grade_documents: the verdict is read with
\* response.get("grade"), so a missing key is no exception but no match.
GraderGradeOne(acc, doc, r) ==
    IF ~r.ok THEN acc
    ELSE IF "grade" \in DOMAIN r.json /\ r.json.grade = "relevant" THEN Append(acc, doc)
    ELSE acc

RECURSIVE GraderGradeLoop(_, _, _, _)
GraderGradeLoop(docs, results, i, acc) ==
    IF i > Len(docs) THEN acc
    ELSE GraderGradeLoop(docs, results, i + 1, GraderGradeOne(acc, docs[i], results[i]))

grader_grade_documents(docs, results) ==
    IF docs = <<>> THEN <<>> ELSE GraderGradeLoop(docs, results, 1, <<>>)

\* --------------------------------------------------------- query rewriter
\* Mutant: the echo test compares the strings case-sensitively.
rewrite_query_case_sensitive(query, llm) ==
    IF ~llm.ok THEN query
    ELSE LET improved_query == Strip(llm.text)
         IN  IF improved_query = query THEN query \o Suffix
             ELSE improved_query

\* Mutant: the except branch returns the suffixed query.
rewrite_query_suffix_on_failure(query, llm) ==
    IF ~llm.ok THEN query \o Suffix
    ELSE LET improved_query == Strip(llm.text)
         IN  IF Lower(improved_query) = Lower(query) THEN query \o Suffix
             ELSE improved_query

\* QueryRewriter.rewrite_query
rewrite_query(query, llm) ==
    IF ~llm.ok THEN query
    ELSE LET improved_query == Strip(llm.text)
         IN  IF Lower(improved_query) = Lower(query) THEN query \o Suffix
             ELSE improved_query

\* Mutant: the node records the new query without making it the query.
InnerRewriteKeepsQuery(st, llm) ==
    LET new_query == rewrite_query(st.query, llm)
    IN  [query |-> st.query,
         rewritten_queries |-> Append(st.rewritten_queries, new_query),
         attempt_count |-> st.attempt_count + 1]

\* QueryRewritePipeline.rewrite (the inner graph's node)
InnerRewrite(st, llm) ==
    LET new_query == rewrite_query(st.query, llm)
    IN  [query |-> new_query,
         rewritten_queries |-> Append(st.rewritten_queries, new_query),
         attempt_count |-> st.attempt_count + 1]

\* QueryRewritePipeline.should_rewrite
should_rewrite(st) ==
    IF st.attempt_count >= InnerMaxAttempts THEN "end"
    ELSE IF st.rewritten_queries[Len(st.rewritten_queries)] # st.query THEN "retry"
    ELSE "end"

\* The inner graph: the node, then the conditional edge; llms[i] is the
\* result of the i-th completion call.
RECURSIVE InnerGraph(_, _)
InnerGraph(st, llms) ==
    LET next == InnerRewrite(st, llms[st.attempt_count + 1])
    IN  IF should_rewrite(next) = "retry" THEN InnerGraph(next, llms) ELSE next

\* QueryRewritePipeline.run: the final state of the inner graph.
RewriteRunState(query, llms) ==
    InnerGraph([query |-> query, rewritten_queries |-> <<>>, attempt_count |-> 0], llms)

RewriteRun(query, llms) == RewriteRunState(query, llms).query

\* ----------------------------------------------------- response generator
RECURSIVE JoinContents(_)
JoinContents(docs) ==
    IF docs = <<>> THEN <<>>
    ELSE IF Len(docs) = 1 THEN <<docs[1].page_content>>
    ELSE <<docs[1].page_content, "\n\n">> \o JoinContents(Tail(docs))

RECURSIVE JoinTurns(_)
JoinTurns(msgs) ==
    IF msgs = <<>> THEN <<>>
    ELSE IF Len(msgs) = 1 THEN <<msgs[1].role, ": ">> \o msgs[1].content
    ELSE <<msgs[1].role, ": ">> \o msgs[1].content \o <<"\n">> \o JoinTurns(Tail(msgs))

\* ResponseGenerator.generate_response: the prompt variables it sends.
GeneratorPrompt(q, docs, msgs) ==
    [query |-> q,
     context |-> IF docs # <<>> THEN JoinContents(docs) ELSE <<"No relevant data.">>,
     history |-> IF msgs # <<>> THEN JoinTurns(msgs) ELSE <<"No prior conversation.">>]

\* ----------------------------------------------------------- orchestrator
\* Mutant: the window keeps the first turns instead of the last.
filter_messages_first(msgs) ==
    IF Len(msgs) > HistoryWindow THEN SubSeq(msgs, 1, HistoryWindow) ELSE msgs

\* Mutant: the history is passed on whole.
filter_messages_all(msgs) == msgs

\* CRAGPipeline.filter_messages
filter_messages(msgs) ==
    IF Len(msgs) > HistoryWindow
    THEN SubSeq(msgs, Len(msgs) - HistoryWindow + 1, Len(msgs))
    ELSE msgs

\* Mutant: the pleasantry test is inverted.
decide_analysis_result_inverted(it) ==
    IF it # "pleasantry" THEN "generate_response" ELSE "retrieve_documents"

\* CRAGPipeline.decide_analysis_result
decide_analysis_result(it) ==
    IF it = "pleasantry" THEN "generate_response" ELSE "retrieve_documents"

\* Mutant: the budget test allows one retry fewer.
decide_next_step_short(rel, attempts) ==
    IF rel # <<>> THEN "generate_response"
    ELSE IF attempts < MaxAttempts - 1 THEN "rewrite_query"
    ELSE "apology"

\* Mutant: the budget test lets a third rewrite through.
decide_next_step_inclusive(rel, attempts) ==
    IF rel # <<>> THEN "generate_response"
    ELSE IF attempts <= MaxAttempts THEN "rewrite_query"
    ELSE "apology"

\* CRAGPipeline.decide_next_step
decide_next_step(rel, attempts) ==
    IF rel # <<>> THEN "generate_response"
    ELSE IF attempts < MaxAttempts THEN "rewrite_query"
    ELSE "apology"

\* Mutant: the "apology" label is wired to the rewrite node.
GradeEdgeApologyRewrites(label) ==
    IF label = "generate_response" THEN "generate_response" ELSE "rewrite_query"

\* Mutant: the "apology" label ends the run without a response.
GradeEdgeApologyEnds(label) ==
    IF label = "rewrite_query" THEN "rewrite_query"
    ELSE IF label = "apology" THEN "END"
    ELSE "generate_response"

\* The conditional-edge table of grade_documents.
GradeEdge(label) ==
    IF label = "rewrite_query" THEN "rewrite_query" ELSE "generate_response"

UserTurn(content) == [role |-> "user", content |-> content]

AssistantTurn(content) == [role |-> "assistant", content |-> content]

\* ------------------------------------------------------------------ state
VARIABLES
    \* GraphState, the value threaded through the graph
    query, rewritten_queries, retrieved_docs, relevant_docs, attempt_count,
    response, input_type, namespace, metadata_filter, messages,
    \* the node the graph runs next; "END" once run has returned, "raised"
    \* once an exception has left run
    pc,
    \* the arguments the caller gave to run
    in_query, in_messages,
    \* run's locals: what it returns
    final_response, final_messages,
    \* history: completion/embedding/index calls issued, nodes executed
    calls, steps,
    \* history: the results of the grading calls of the pass just executed
    \* (until the next node runs), the relevant set each grading pass
    \* produced, the arguments of the last retrieval and every call of the
    \* response generator
    grade_results, grade_outputs, last_retrieval, gen_calls,
    \* history: the node just executed, the query it passed to its calls, the
    \* results of the classification / rewrite calls it made and the
    \* documents it graded (replaced by every node)
    trace,
    \* the rewriter specification: one call of QueryRewriter.rewrite_query
    rw,
    \* the startup specification: the environment's settings and how far the
    \* application has come
    boot,
    \* the concurrency specification: two runs on one CRAGPipeline instance
    conc,
    \* the session specification: st.session_state of one browser session and
    \* the pipeline run the action just executed has issued
    ui,
    \* the list-object specification: one call of run, with the lists the
    \* caller and the run hold as references to objects
    mem,
    \* the authentication specification: one call of authenticate_user
    au

vars ==
    <<query, rewritten_queries, retrieved_docs, relevant_docs, attempt_count,
      response, input_type, namespace, metadata_filter, messages, pc, in_query,
      in_messages, final_response, final_messages, calls, steps, grade_results,
      grade_outputs, last_retrieval, gen_calls, trace, rw, boot, conc, ui, mem, au>>

\* The variables of one pipeline run.
run_vars ==
    <<query, rewritten_queries, retrieved_docs, relevant_docs, attempt_count,
      response, input_type, namespace, metadata_filter, messages, pc, in_query,
      in_messages, final_response, final_messages, calls, steps, grade_results,
      grade_outputs, last_retrieval, gen_calls, trace>>

graph_state ==
    <<query, rewritten_queries, retrieved_docs, relevant_docs, attempt_count,
      response, input_type, namespace, metadata_filter, messages>>

\* ----------------------------------------------------------------- inputs
\* The i-th turn of a caller's history.
HistoryTurn(i) ==
    [role |-> IF i % 2 = 1 THEN "user" ELSE "assistant",
     content |-> <<"h", ToString(i)>>]

History(n) == [i \in 1..n |-> HistoryTurn(i)]

Histories == {History(n) : n \in 0..MaxHistory}

Queries == {<<"q">>}

\* The scoping a caller passes: run's defaults, or a namespace with a
\* tenant filter.
Scopes ==
    {[namespace |-> "default", metadata_filter |-> {}],
     [namespace |-> "ns", metadata_filter |-> {<<"tenant_id", "t1">>}]}

\* `x or {}` / `x or []` on a value that is already a mapping / a list
OrEmpty(x) == x

\* The completion calls counted over the whole run.  Embedding calls and
\* index searches are counted per retrieval (last_retrieval), grading calls
\* per pass (grade_results has one result per call issued).
CallNames == {"classify", "rewrite", "generate"}

NodeNames ==
    {"analyze_input", "retrieve_documents", "grade_documents", "rewrite_query",
     "generate_response"}

NoRetrieval ==
    [query |-> <<>>, namespace |-> "", metadata_filter |-> {}, k |-> 0,
     embed_calls |-> 0, index_calls |-> 0, failed |-> FALSE]

\* What a node leaves in trace.
Traced(node, q, results, docs) ==
    [node |-> node, query |-> q, results |-> results, docs |-> docs]

NoTrace == Traced("", <<>>, <<>>, <<>>)

RwIdle == [pc |-> "idle", query |-> <<>>, llm |-> TextFailed, result |-> <<>>]

BootIdle == [stage |-> "idle", env |-> <<>>, error |-> ""]

ConcIdle == [runs |-> <<>>, heap |-> <<>>, log |-> <<>>]

UiIdle == [keys |-> {}]

MemIdle == [pc |-> "idle"]

AuIdle == [pc |-> <<>>]

\* CRAGPipeline.run, up to the first node: the inputs record and the locals.
Init ==
    /\ in_query \in Queries
    /\ in_messages \in Histories
    /\ \E s \in Scopes :
        /\ namespace = s.namespace
        /\ metadata_filter = OrEmpty(s.metadata_filter)
    /\ query = in_query
    /\ rewritten_queries = <<>>
    /\ retrieved_docs = <<>>
    /\ relevant_docs = <<>>
    /\ attempt_count = 0
    /\ response = <<>>
    /\ input_type = ""
    /\ messages = OrEmpty(in_messages)
    /\ final_response = NoValidResponse
    /\ final_messages = messages
    /\ pc = "analyze_input"
    /\ calls = [c \in CallNames |-> 0]
    /\ steps = [n \in NodeNames |-> 0]
    /\ grade_results = <<>>
    /\ grade_outputs = <<>>
    /\ last_retrieval = NoRetrieval
    /\ gen_calls = <<>>
    /\ trace = NoTrace
    /\ rw = RwIdle
    /\ boot = BootIdle
    /\ conc = ConcIdle
    /\ ui = UiIdle
    /\ mem = MemIdle
    /\ au = AuIdle

Bump(f, k, n) == [f EXCEPT ![k] = @ + n]

\* ------------------------------------------------------------------ nodes
\* Mutant: the retrieve node blanks input_type.
SpreadTypeBlanked(node, key, value) ==
    IF node = "retrieve_documents" /\ key = "input_type" THEN "" ELSE value

\* Mutant: the classify node extends the query.
SpreadQueryTouched(node, key, value) ==
    IF node = "analyze_input" /\ key = "query" THEN value \o Suffix ELSE value

\* Mutant: the rewrite node puts the namespace back to run's default.
SpreadNamespaceDefaulted(node, key, value) ==
    IF node = "rewrite_query" /\ key = "namespace" THEN "default" ELSE value

\* Mutant: the retrieve node starts a new rewritten_queries list.
SpreadLogCleared(node, key, value) ==
    IF node = "retrieve_documents" /\ key = "rewritten_queries" THEN <<>> ELSE value

\* {**state, ...}: a node's result holds, for every key it does not name,
\* the value the node was given.
Spread(node, key, value) == value

\* CRAGPipeline.analyze_input, then the conditional edge out of it.
AnalyzeInput ==
    /\ pc = "analyze_input"
    /\ \E r \in ClassifierResults :
        /\ input_type' = analyze_input(r)
        /\ pc' = decide_analysis_result(input_type')
        /\ trace' = Traced("analyze_input", query, <<r>>, <<>>)
    /\ calls' = Bump(calls, "classify", 1)
    /\ steps' = Bump(steps, "analyze_input", 1)
    /\ query' = Spread("analyze_input", "query", query)
    /\ rewritten_queries' = Spread("analyze_input", "rewritten_queries", rewritten_queries)
    /\ attempt_count' = Spread("analyze_input", "attempt_count", attempt_count)
    /\ namespace' = Spread("analyze_input", "namespace", namespace)
    /\ metadata_filter' = Spread("analyze_input", "metadata_filter", metadata_filter)
    /\ UNCHANGED <<retrieved_docs, relevant_docs, response, messages,
                   in_query, in_messages, final_response, final_messages,
                   grade_results, grade_outputs, last_retrieval, gen_calls, rw, boot, conc, ui, mem, au>>

\* CRAGPipeline.retrieve_documents, then the edge to grade_documents.
RetrieveDocuments ==
    /\ pc = "retrieve_documents"
    /\ \E first \in RetrieverResults(TopK) :
       \E second \in IF RetrieverRetries(first)
                      THEN RetrieverResults(TopK + RetryExtraK)
                      ELSE {first} :
        /\ retrieved_docs' = retrieve_relevant_docs(first, second)
        /\ last_retrieval' =
             [query |-> query, namespace |-> namespace,
              metadata_filter |-> OrEmpty(metadata_filter), k |-> TopK,
              embed_calls |-> EmbedCalls(first, second),
              index_calls |-> IndexCalls(first, second),
              failed |-> RetrievalFailed(first, second)]
    /\ trace' = Traced("retrieve_documents", query, <<>>, <<>>)
    /\ relevant_docs' = <<>>
    /\ grade_results' = <<>>
    /\ steps' = Bump(steps, "retrieve_documents", 1)
    /\ pc' = "grade_documents"
    /\ query' = Spread("retrieve_documents", "query", query)
    /\ rewritten_queries' = Spread("retrieve_documents", "rewritten_queries", rewritten_queries)
    /\ attempt_count' = Spread("retrieve_documents", "attempt_count", attempt_count)
    /\ input_type' = Spread("retrieve_documents", "input_type", input_type)
    /\ namespace' = Spread("retrieve_documents", "namespace", namespace)
    /\ metadata_filter' = Spread("retrieve_documents", "metadata_filter", metadata_filter)
    /\ UNCHANGED <<response, messages, in_query, in_messages,
                   final_response, final_messages, calls, grade_outputs, gen_calls,
                   rw, boot, conc, ui, mem, au>>

\* CRAGPipeline.grade_documents, then the conditional edge out of it.
GradeDocuments ==
    /\ pc = "grade_documents"
    /\ \E results \in [1..Len(retrieved_docs) -> GraderResults] :
        /\ relevant_docs' = grade_documents(retrieved_docs, results)
        /\ grade_results' = results
    /\ grade_outputs' = Append(grade_outputs, relevant_docs')
    /\ trace' = Traced("grade_documents", query, <<>>,
                       grade_calls(retrieved_docs, grade_results'))
    /\ steps' = Bump(steps, "grade_documents", 1)
    /\ pc' = GradeEdge(decide_next_step(relevant_docs', attempt_count))
    /\ query' = Spread("grade_documents", "query", query)
    /\ rewritten_queries' = Spread("grade_documents", "rewritten_queries", rewritten_queries)
    /\ attempt_count' = Spread("grade_documents", "attempt_count", attempt_count)
    /\ input_type' = Spread("grade_documents", "input_type", input_type)
    /\ namespace' = Spread("grade_documents", "namespace", namespace)
    /\ metadata_filter' = Spread("grade_documents", "metadata_filter", metadata_filter)
    /\ UNCHANGED <<retrieved_docs, response, messages,
                   in_query, in_messages, final_response, final_messages, calls,
                   last_retrieval, gen_calls, rw, boot, conc, ui, mem, au>>

\* Mutant: the retry grades again without a fresh retrieval.
RewriteEdgeRegrades == "grade_documents"

\* The edge out of rewrite_query.
RewriteEdge == "retrieve_documents"

\* Mutant: the rewrite node forgets to count the attempt.
NextAttemptStuck(attempt) == attempt

\* attempt_count after CRAGPipeline.rewrite_query
NextAttempt(attempt) == IF attempt >= MaxAttempts THEN attempt ELSE attempt + 1

\* CRAGPipeline.rewrite_query, then the edge to retrieve_documents.
RewriteQuery ==
    /\ pc = "rewrite_query"
    /\ IF attempt_count >= MaxAttempts
       THEN /\ UNCHANGED <<query, rewritten_queries, calls>>
            /\ trace' = Traced("rewrite_query", query, <<>>, <<>>)
       ELSE \E llms \in [1..InnerMaxAttempts -> RewriterResults] :
              LET rewritten_query == RewriteRun(query, llms)
                  issued == RewriteRunState(query, llms).attempt_count
              IN  /\ IF rewritten_query # query
                     THEN /\ rewritten_queries' = Append(rewritten_queries, rewritten_query)
                          /\ query' = rewritten_query
                     ELSE UNCHANGED <<query, rewritten_queries>>
                  /\ calls' = Bump(calls, "rewrite", issued)
                  /\ trace' = Traced("rewrite_query", query, SubSeq(llms, 1, issued), <<>>)
    /\ attempt_count' = NextAttempt(attempt_count)
    /\ steps' = Bump(steps, "rewrite_query", 1)
    /\ pc' = RewriteEdge
    /\ grade_results' = <<>>
    /\ input_type' = Spread("rewrite_query", "input_type", input_type)
    /\ namespace' = Spread("rewrite_query", "namespace", namespace)
    /\ metadata_filter' = Spread("rewrite_query", "metadata_filter", metadata_filter)
    /\ UNCHANGED <<retrieved_docs, relevant_docs, response, messages, in_query,
                   in_messages, final_response, final_messages, grade_outputs,
                   last_retrieval, gen_calls, rw, boot, conc, ui, mem, au>>

\* Mutant: the two new turns are appended in the wrong order.
UpdatedMessagesSwapped(filtered_messages, q, resp) ==
    filtered_messages \o <<AssistantTurn(resp), UserTurn(q)>>

\* Mutant: the user turn holds what the caller typed.
UpdatedMessagesOriginal(filtered_messages, q, resp) ==
    filtered_messages \o <<UserTurn(in_query), AssistantTurn(resp)>>

\* The messages CRAGPipeline.generate_response returns.
UpdatedMessages(filtered_messages, q, resp) ==
    filtered_messages \o <<UserTurn(q), AssistantTurn(resp)>>

\* Mutant: run looks for a node name the graph does not have.
FromChunkWrongKey(node, value, final) ==
    IF node = "respond" THEN value ELSE final

\* The body of run's loop over the streamed chunks: the chunk of node `node`
\* carries `value`; `final` is the local it may replace.
FromChunk(node, value, final) ==
    IF node = "generate_response" THEN value ELSE final

\* CRAGPipeline.generate_response, the edge to END, and run's handling of the
\* chunk.  A failed completion call raises out of the node and out of run.
GenerateResponse ==
    /\ pc = "generate_response"
    /\ \E g \in GeneratorResults :
        LET filtered_messages == filter_messages(messages)
            call == [query |-> query, relevant_docs |-> relevant_docs,
                     messages |-> OrEmpty(filtered_messages),
                     prompt |-> GeneratorPrompt(query, relevant_docs,
                                                OrEmpty(filtered_messages)),
                     result |-> g]
        IN  /\ gen_calls' = Append(gen_calls, call)
            /\ trace' = Traced("generate_response", query, <<>>, <<>>)
            /\ IF g.ok
               THEN /\ response' = g.text
                    /\ messages' = UpdatedMessages(filtered_messages, query, g.text)
                    /\ final_response' =
                         FromChunk("generate_response", response', final_response)
                    /\ final_messages' =
                         FromChunk("generate_response", messages', final_messages)
                    /\ pc' = "END"
               ELSE /\ pc' = "raised"
                    /\ UNCHANGED <<response, messages, final_response, final_messages>>
    /\ calls' = Bump(calls, "generate", 1)
    /\ steps' = Bump(steps, "generate_response", 1)
    /\ grade_results' = <<>>
    /\ query' = Spread("generate_response", "query", query)
    /\ rewritten_queries' = Spread("generate_response", "rewritten_queries", rewritten_queries)
    /\ attempt_count' = Spread("generate_response", "attempt_count", attempt_count)
    /\ input_type' = Spread("generate_response", "input_type", input_type)
    /\ namespace' = Spread("generate_response", "namespace", namespace)
    /\ metadata_filter' = Spread("generate_response", "metadata_filter", metadata_filter)
    /\ UNCHANGED <<retrieved_docs, relevant_docs, in_query, in_messages,
                   grade_outputs, last_retrieval, rw, boot, conc, ui, mem, au>>

Next ==
    \/ AnalyzeInput
    \/ RetrieveDocuments
    \/ GradeDocuments
    \/ RewriteQuery
    \/ GenerateResponse

Spec == Init /\ [][Next]_vars

Terminated == pc \in {"END", "raised"}

\* --------------------------------------------- the rewriter on its own
RewriterAlphabet == {"q", "Q", " "}

RewriterStrings == SeqsUpTo(RewriterAlphabet, MaxLen)

\* No pipeline run: the graph state is idle.
NoRun ==
    /\ in_query = <<>>
    /\ in_messages = <<>>
    /\ namespace = "default"
    /\ metadata_filter = {}
    /\ query = <<>>
    /\ rewritten_queries = <<>>
    /\ retrieved_docs = <<>>
    /\ relevant_docs = <<>>
    /\ attempt_count = 0
    /\ response = <<>>
    /\ input_type = ""
    /\ messages = <<>>
    /\ final_response = NoValidResponse
    /\ final_messages = <<>>
    /\ pc = "idle"
    /\ calls = [c \in CallNames |-> 0]
    /\ steps = [n \in NodeNames |-> 0]
    /\ grade_results = <<>>
    /\ grade_outputs = <<>>
    /\ last_retrieval = NoRetrieval
    /\ gen_calls = <<>>
    /\ trace = NoTrace

\* A query and the result of the rewrite completion call for it.
InitRewriter ==
    /\ NoRun
    /\ \E q \in RewriterStrings, llm \in {TextFailed} \cup {Text(t) : t \in RewriterStrings} :
        rw = [pc |-> "call", query |-> q, llm |-> llm, result |-> <<>>]
    /\ boot = BootIdle
    /\ conc = ConcIdle
    /\ ui = UiIdle
    /\ mem = MemIdle
    /\ au = AuIdle

\* One call of QueryRewriter.rewrite_query.
RewriterCall ==
    /\ rw.pc = "call"
    /\ rw' = [rw EXCEPT !.pc = "done", !.result = rewrite_query(rw.query, rw.llm)]
    /\ UNCHANGED <<run_vars, boot, conc, ui, mem, au>>

NextRewriter == RewriterCall

SpecRewriter == InitRewriter /\ [][NextRewriter]_vars

\* ------------------------------------------------------------- startup
\* The settings Config reads from the environment.
Settings ==
    {"PINECONE_API_KEY", "PINECONE_INDEX", "OPENAI_API_KEY", "PINECONE_INDEX_HOST",
     "FIREBASE_CREDENTIALS_PATH"}

\* os.getenv on a variable that is not set (None), set to "", or set.
SettingValues == {"unset", "empty", "set"}

\* `not x` on a setting
Falsy(v) == v \in {"unset", "empty"}

\* Config.validate: "ValueError" when it raises.
validate(env) ==
    IF Falsy(env["PINECONE_API_KEY"]) \/ Falsy(env["OPENAI_API_KEY"])
    THEN "ValueError"
    ELSE "ok"

\* credentials.Certificate(path) reads the file at that path: without a path
\* it raises, and with one the file may still be unreadable.
CertificateOutcomes(v) == IF Falsy(v) THEN {"raises"} ELSE {"ok", "raises"}

\* Pinecone.Index(host=...): the code passes the setting on unchecked, so
\* whether a missing host is refused when the Retriever is constructed is
\* the client library's choice.
IndexOutcomes(v) == IF Falsy(v) THEN {"ok", "raises"} ELSE {"ok"}

InitStartup ==
    /\ NoRun
    /\ rw = RwIdle
    /\ conc = ConcIdle
    /\ ui = UiIdle
    /\ mem = MemIdle
    /\ au = AuIdle
    /\ \E env \in [Settings -> SettingValues] :
        boot = [stage |-> "start", env |-> env, error |-> ""]

\* Importing config: Config.validate(), then Config.initialize_firebase().
ImportConfig ==
    /\ boot.stage = "start"
    /\ IF validate(boot.env) # "ok"
       THEN boot' = [boot EXCEPT !.stage = "failed", !.error = validate(boot.env)]
       ELSE \E c \in CertificateOutcomes(boot.env["FIREBASE_CREDENTIALS_PATH"]) :
              boot' = IF c = "ok" THEN [boot EXCEPT !.stage = "login"]
                      ELSE [boot EXCEPT !.stage = "failed", !.error = "Certificate"]
    /\ UNCHANGED <<run_vars, rw, conc, ui, mem, au>>

\* main, as far as the login form, and a user who logs in.
Login ==
    /\ boot.stage = "login"
    /\ boot' = [boot EXCEPT !.stage = "authenticated"]
    /\ UNCHANGED <<run_vars, rw, conc, ui, mem, au>>

\* load_pipeline: CRAGPipeline() constructs the Retriever, which connects to
\* the index with Config.PINECONE_INDEX_HOST.
LoadPipeline ==
    /\ boot.stage = "authenticated"
    /\ \E c \in IndexOutcomes(boot.env["PINECONE_INDEX_HOST"]) :
        boot' = IF c = "ok" THEN [boot EXCEPT !.stage = "serving"]
                ELSE [boot EXCEPT !.stage = "failed", !.error = "Index"]
    /\ UNCHANGED <<run_vars, rw, conc, ui, mem, au>>

\* main calls crag.run for a message the user typed.
BeginRun ==
    /\ boot.stage = "serving"
    /\ boot' = [boot EXCEPT !.stage = "running"]
    /\ UNCHANGED <<run_vars, rw, conc, ui, mem, au>>

NextStartup ==
    \/ ImportConfig
    \/ Login
    \/ LoadPipeline
    \/ BeginRun

SpecStartup == InitStartup /\ [][NextStartup]_vars

\* ---------------------------------------- two runs on one CRAGPipeline
\* load_pipeline caches one CRAGPipeline; its attributes (the components and
\* the compiled graph) are set in __init__ and not assigned again.  Each call
\* of run builds its own inputs mapping.  Lists are objects: the rewrite node
\* appends to the list its state refers to, so rewritten_queries is a
\* reference into conc.heap.
RunIds == {1, 2}

ConcQuery(r) == IF r = 1 THEN <<"q">> ELSE <<"p">>

ConcMessages(r) == IF r = 1 THEN <<>> ELSE History(1)

\* Mutant: every call of run starts from one and the same list object.
NewListShared(r) == 1

\* The list object run creates for rewritten_queries: a new one per call.
NewList(r) == r

\* The inputs mapping run builds, and its locals.
ConcInputs(r) ==
    [pc |-> "analyze_input",
     query |-> ConcQuery(r),
     rewritten_queries |-> NewList(r),
     retrieved_docs |-> <<>>,
     relevant_docs |-> <<>>,
     attempt_count |-> 0,
     response |-> <<>>,
     input_type |-> "",
     messages |-> OrEmpty(ConcMessages(r)),
     final_response |-> NoValidResponse,
     final_messages |-> OrEmpty(ConcMessages(r))]

ConcRetrieverResults ==
    {[embed_ok |-> FALSE, index_ok |-> FALSE, matches |-> <<>>],
     [embed_ok |-> TRUE, index_ok |-> TRUE,
      matches |-> <<[text |-> "t1", source |-> "s1"]>>]}

\* The results the external calls of the node a run is at can have.
ConcEnv(st) ==
    CASE st.pc = "analyze_input" ->
           {Parsed([type |-> "question"]), Parsed([type |-> "pleasantry"])}
      [] st.pc = "retrieve_documents" -> ConcRetrieverResults
      [] st.pc = "grade_documents" ->
           [1..Len(st.retrieved_docs) ->
              {Parsed([grade |-> "relevant"]), Parsed([grade |-> "irrelevant"])}]
      [] st.pc = "rewrite_query" ->
           {[i \in 1..InnerMaxAttempts |-> r] : r \in {TextFailed, Text(<<"r">>)}}
      [] st.pc = "generate_response" -> {Text(<<"o", "k">>), TextFailed}

\* One node of the graph on the state st of a run, lst being the contents
\* of the list st.rewritten_queries refers to and e the results of the
\* node's external calls: the run's next state and the list's contents.
ConcStep(st, lst, e) ==
    CASE st.pc = "analyze_input" ->
           LET it == analyze_input(e)
           IN  [st |-> [st EXCEPT !.input_type = it, !.pc = decide_analysis_result(it)],
                lst |-> lst]
      [] st.pc = "retrieve_documents" ->
           [st |-> [st EXCEPT !.retrieved_docs = retrieve_relevant_docs(e, e),
                              !.relevant_docs = <<>>,
                              !.pc = "grade_documents"],
            lst |-> lst]
      [] st.pc = "grade_documents" ->
           LET rel == grade_documents(st.retrieved_docs, e)
           IN  [st |-> [st EXCEPT !.relevant_docs = rel,
                                  !.pc = GradeEdge(decide_next_step(rel, st.attempt_count))],
                lst |-> lst]
      [] st.pc = "rewrite_query" ->
           IF st.attempt_count >= MaxAttempts
           THEN [st |-> [st EXCEPT !.pc = RewriteEdge], lst |-> lst]
           ELSE LET rewritten_query == RewriteRun(st.query, e)
                    changed == rewritten_query # st.query
                IN  [st |-> [st EXCEPT !.query = rewritten_query,
                                       !.attempt_count = NextAttempt(st.attempt_count),
                                       !.pc = RewriteEdge],
                     lst |-> IF changed THEN Append(lst, rewritten_query) ELSE lst]
      [] st.pc = "generate_response" ->
           IF e.ok
           THEN LET updated == UpdatedMessages(filter_messages(st.messages),
                                               st.query, e.text)
                IN  [st |-> [st EXCEPT
                               !.response = e.text,
                               !.messages = updated,
                               !.final_response =
                                   FromChunk("generate_response", e.text, st.final_response),
                               !.final_messages =
                                   FromChunk("generate_response", updated, st.final_messages),
                               !.pc = "END"],
                     lst |-> lst]
           ELSE [st |-> [st EXCEPT !.pc = "raised"], lst |-> lst]

\* Two calls of run have built their inputs.
InitConcurrent ==
    /\ NoRun
    /\ rw = RwIdle
    /\ boot = BootIdle
    /\ ui = UiIdle
    /\ mem = MemIdle
    /\ au = AuIdle
    /\ conc = [runs |-> [r \in RunIds |-> ConcInputs(r)],
               heap |-> [l \in {NewList(r) : r \in RunIds} |-> <<>>],
               log |-> [r \in RunIds |-> <<>>]]

\* Run r executes its next node.
ConcNode(r) ==
    /\ conc.runs[r].pc \notin {"END", "raised"}
    /\ \E e \in ConcEnv(conc.runs[r]) :
        LET st == conc.runs[r]
            n == ConcStep(st, conc.heap[st.rewritten_queries], e)
        IN  conc' = [runs |-> [conc.runs EXCEPT ![r] = n.st],
                     heap |-> [conc.heap EXCEPT ![st.rewritten_queries] = n.lst],
                     log |-> [conc.log EXCEPT ![r] = Append(@, e)]]
    /\ UNCHANGED <<run_vars, rw, boot, ui, mem, au>>

NextConcurrent == \E r \in RunIds : ConcNode(r)

SpecConcurrent == InitConcurrent /\ [][NextConcurrent]_vars

\* ------------------------------------------------- one browser session
\* main is executed again on every interaction; an action below is one
\* interaction together with the rerun it triggers.  ui.keys are the keys
\* st.session_state holds; a key it does not hold has a placeholder value.
\* The PDF upload and the log checkbox touch none of these keys.  ui.stored
\* is the document the session store holds for this session's id, NoUser
\* when it holds none.  ui.since_login tells whether a login has happened
\* since the session began or was logged out ("none" if not), and whether a
\* run has been issued since that login ("fresh" if not, "ran" otherwise).
NoUser == [user_email |-> "", tenant_id |-> "none"]

\* The user records authenticate_user / register_external_user can return:
\* two tenants, and a user whose record has no tenant_id.
Users ==
    {[user_email |-> "a", tenant_id |-> "t1"],
     [user_email |-> "b", tenant_id |-> "t2"],
     [user_email |-> "c", tenant_id |-> "none"]}

NoRunIssued ==
    [issued |-> FALSE, user |-> NoUser, namespace |-> "", metadata_filter |-> {},
     messages |-> <<>>, raised |-> FALSE, returned |-> <<>>, since |-> "none"]

\* save_session_to_firestore: the document written for the session id.
save_session_to_firestore(user_data) ==
    [user_email |-> user_data.user_email, tenant_id |-> user_data.tenant_id]

\* Mutant: the Logout button leaves the stored session in place.
delete_session_kept(doc) == doc

\* delete_session_from_firestore: no document is left for the session id.
delete_session_from_firestore(doc) == NoUser

\* main's check for an existing session: a session without a user takes
\* the user of the stored document, when there is one.
RestoreUser(s) ==
    IF "user" \notin s.keys /\ s.stored # NoUser
    THEN [s EXCEPT !.keys = @ \cup {"user"}, !.user = s.stored]
    ELSE s

\* {"tenant_id": {"$eq": tenant_id}} if tenant_id else {}
TenantFilter(u) ==
    IF u.tenant_id # "none" THEN {<<"tenant_id", u.tenant_id>>} ELSE {}

\* main's "Initialize session state" block: only keys that are not in
\* st.session_state are set.
SessionInit(s) ==
    [s EXCEPT
       !.keys = @ \cup {"history", "messages", "namespace", "metadata_filter"},
       !.shown = IF "history" \in s.keys THEN @ ELSE 0,
       !.messages = IF "messages" \in s.keys THEN @ ELSE <<>>,
       !.namespace = IF "namespace" \in s.keys THEN @ ELSE "default",
       !.metadata_filter = IF "metadata_filter" \in s.keys THEN @
                           ELSE TenantFilter(s.user)]

\* One execution of main up to the widgets: the session check, then, for
\* a session with a user, the initialization of the session keys.
Rerun(s) ==
    LET r == RestoreUser(s)
    IN  IF "user" \in r.keys THEN SessionInit(r) ELSE r

InitSession ==
    /\ NoRun
    /\ rw = RwIdle
    /\ boot = BootIdle
    /\ conc = ConcIdle
    /\ mem = MemIdle
    /\ au = AuIdle
    /\ ui = [keys |-> {}, user |-> NoUser, shown |-> 0, messages |-> <<>>,
             namespace |-> "", metadata_filter |-> {}, last_run |-> NoRunIssued,
             stored |-> NoUser, since_login |-> "none"]

\* The login (or register) button with credentials that are accepted, and
\* the rerun of main that follows.
UiLogin ==
    /\ "user" \notin ui.keys
    /\ \E u \in Users :
        ui' = Rerun([ui EXCEPT !.keys = @ \cup {"user"},
                               !.user = u,
                               !.stored = save_session_to_firestore(u),
                               !.since_login = "fresh",
                               !.last_run = NoRunIssued])
    /\ UNCHANGED <<run_vars, rw, boot, conc, mem, au>>

\* The Logout button.
UiLogout ==
    /\ "user" \in ui.keys
    /\ ui' = Rerun([ui EXCEPT !.stored = delete_session_from_firestore(@),
                              !.keys = @ \ {"user"},
                              !.user = NoUser,
                              !.shown = 0,
                              !.messages = <<>>,
                              !.namespace = "default",
                              !.metadata_filter = {},
                              !.since_login = "none",
                              !.last_run = NoRunIssued])
    /\ UNCHANGED <<run_vars, rw, boot, conc, mem, au>>

\* The Apply Settings button, with the namespace, metadata key and value
\* the sidebar holds.
UiApplySettings ==
    /\ "user" \in ui.keys
    /\ \E selected_namespace \in {"default", "ns"}, selected_key \in {"source", "category"},
          selected_value \in {"", "v"} :
        ui' = [ui EXCEPT
                 !.namespace = selected_namespace,
                 !.metadata_filter =
                     TenantFilter(ui.user)
                       \cup (IF selected_value # "" THEN {<<selected_key, selected_value>>}
                             ELSE {}),
                 !.last_run = NoRunIssued]
    /\ UNCHANGED <<run_vars, rw, boot, conc, mem, au>>

\* The Clear Chat button.
UiClearChat ==
    /\ "user" \in ui.keys
    /\ ui' = [ui EXCEPT !.shown = 0, !.messages = <<>>, !.last_run = NoRunIssued]
    /\ UNCHANGED <<run_vars, rw, boot, conc, mem, au>>

\* The user types "exit": two turns are appended to the messages list.
UiExit ==
    /\ "user" \in ui.keys
    /\ Len(ui.messages) + 2 <= MaxSessionMessages
    /\ ui' = [ui EXCEPT
                 !.shown = Min(@ + 1, MaxShown),
                 !.messages = @ \o <<UserTurn(<<"e", "x", "i", "t">>),
                                     AssistantTurn(<<"G", "o", "o", "d", "b", "y", "e", "!">>)>>,
                 !.last_run = NoRunIssued]
    /\ UNCHANGED <<run_vars, rw, boot, conc, mem, au>>

\* The user types a message: crag.run is called with the session's
\* namespace, metadata_filter and messages.  The run returns the answer and
\* the messages of its generate_response node, or the generator's failure
\* leaves run and the session is left as it was.
UiChat ==
    /\ "user" \in ui.keys
    /\ \E user_query \in Queries, final_query \in {<<"q">>, <<"r">>},
          g \in {TextFailed, Text(<<"o", "k">>)} :
        LET issued == [issued |-> TRUE, user |-> ui.user, namespace |-> ui.namespace,
                       metadata_filter |-> OrEmpty(ui.metadata_filter),
                       messages |-> OrEmpty(ui.messages),
                       raised |-> ~g.ok, returned |-> <<>>,
                       since |-> ui.since_login]
            updated_messages ==
                UpdatedMessages(filter_messages(issued.messages), final_query, g.text)
        IN  ui' = IF g.ok
                  THEN [ui EXCEPT !.shown = Min(@ + 1, MaxShown),
                                  !.messages = updated_messages,
                                  !.since_login = IF @ = "fresh" THEN "ran" ELSE @,
                                  !.last_run = [issued EXCEPT !.returned = updated_messages]]
                  ELSE [ui EXCEPT !.since_login = IF @ = "fresh" THEN "ran" ELSE @,
                                  !.last_run = issued]
    /\ UNCHANGED <<run_vars, rw, boot, conc, mem, au>>

NextSession ==
    \/ UiLogin
    \/ UiLogout
    \/ UiApplySettings
    \/ UiClearChat
    \/ UiExit
    \/ UiChat

SpecSession == InitSession /\ [][NextSession]_vars

\* ------------------------------------------- the lists of one call of run
\* Python lists are objects.  mem.heap holds the contents of every list
\* object of one call of run, a reference being a position in it and None
\* being 0; mem.caller is the list the caller passes as messages.
None == 0

\* A new list object with the given contents.
Alloc(heap, contents) == [heap |-> Append(heap, contents), ref |-> Len(heap) + 1]

\* messages or []: the caller's own list unless it is None or empty.
OrEmptyList(heap, ref) ==
    IF ref # None /\ heap[ref] # <<>>
    THEN [heap |-> heap, ref |-> ref]
    ELSE Alloc(heap, <<>>)

\* filter_messages on a list object: a slice is a new list, a history of
\* at most five turns is returned as the object it is.
filter_messages_list(heap, ref) ==
    IF Len(heap[ref]) > HistoryWindow
    THEN Alloc(heap, filter_messages(heap[ref]))
    ELSE [heap |-> heap, ref |-> ref]

\* Mutant: the two turns are appended to the filtered list itself.
updated_messages_extend(heap, ref, q, resp) ==
    [heap |-> [heap EXCEPT ![ref] = UpdatedMessages(@, q, resp)], ref |-> ref]

\* filtered_messages + [user turn, assistant turn]: + builds a new list.
updated_messages_list(heap, ref, q, resp) ==
    Alloc(heap, UpdatedMessages(heap[ref], q, resp))

\* The lists a caller can pass: none, or a history of up to MaxHistory turns.
InitMessages ==
    /\ NoRun
    /\ rw = RwIdle
    /\ boot = BootIdle
    /\ conc = ConcIdle
    /\ ui = UiIdle
    /\ au = AuIdle
    /\ \E h \in Histories, passed \in BOOLEAN, q \in {<<"q">>, <<"p">>} :
         mem = [pc |-> "call",
                heap |-> IF passed THEN <<h>> ELSE <<>>,
                caller |-> IF passed THEN 1 ELSE None,
                before |-> IF passed THEN h ELSE <<>>,
                query |-> q,
                attempt_count |-> 0,
                messages |-> None,
                rewritten_queries |-> None,
                filtered |-> None,
                final_messages |-> None,
                returned |-> None]

\* run builds inputs and its two locals.
MemBegin ==
    /\ mem.pc = "call"
    /\ LET rq == Alloc(mem.heap, <<>>)
           m == OrEmptyList(rq.heap, mem.caller)
       IN  mem' = [mem EXCEPT !.pc = "analyze_input",
                              !.heap = m.heap,
                              !.rewritten_queries = rq.ref,
                              !.messages = m.ref,
                              !.final_messages = m.ref]
    /\ UNCHANGED <<run_vars, rw, boot, conc, ui, au>>

\* analyze_input and the edge after it.
MemAnalyze ==
    /\ mem.pc = "analyze_input"
    /\ \E e \in ClassifierResults :
         mem' = [mem EXCEPT !.pc = decide_analysis_result(analyze_input(e))]
    /\ UNCHANGED <<run_vars, rw, boot, conc, ui, au>>

\* retrieve_documents, grade_documents and the edge after them: the
\* retrieved and relevant lists are new lists of their own.
MemRetrieveGrade ==
    /\ mem.pc = "retrieve_documents"
    /\ \E e \in ConcRetrieverResults :
       \E g \in {Parsed([grade |-> "relevant"]), Parsed([grade |-> "irrelevant"])} :
         LET docs == retrieve_relevant_docs(e, e)
             rel == grade_documents(docs, [i \in 1..Len(docs) |-> g])
         IN  mem' = [mem EXCEPT
                       !.pc = GradeEdge(decide_next_step(rel, mem.attempt_count))]
    /\ UNCHANGED <<run_vars, rw, boot, conc, ui, au>>

\* rewrite_query: a changed query is appended to the list the state's
\* rewritten_queries refers to.
MemRewrite ==
    /\ mem.pc = "rewrite_query"
    /\ IF mem.attempt_count >= MaxAttempts
       THEN mem' = [mem EXCEPT !.pc = RewriteEdge]
       ELSE \E r \in {TextFailed, Text(<<"r">>)} :
              LET rewritten_query ==
                      RewriteRun(mem.query, [i \in 1..InnerMaxAttempts |-> r])
              IN  mem' = [mem EXCEPT
                            !.query = rewritten_query,
                            !.attempt_count = NextAttempt(mem.attempt_count),
                            !.heap = IF rewritten_query # mem.query
                                     THEN [@ EXCEPT ![mem.rewritten_queries] =
                                                      Append(@, rewritten_query)]
                                     ELSE @,
                            !.pc = RewriteEdge]
    /\ UNCHANGED <<run_vars, rw, boot, conc, ui, au>>

\* generate_response and run's handling of its chunk; a failure of the
\* generator leaves run.
MemGenerate ==
    /\ mem.pc = "generate_response"
    /\ \E g \in GeneratorResults :
         IF g.ok
         THEN LET f == filter_messages_list(mem.heap, mem.messages)
                  u == updated_messages_list(f.heap, f.ref, mem.query, g.text)
              IN  mem' = [mem EXCEPT
                            !.heap = u.heap,
                            !.filtered = f.ref,
                            !.messages = u.ref,
                            !.final_messages =
                                FromChunk("generate_response", u.ref, mem.final_messages),
                            !.pc = "END"]
         ELSE mem' = [mem EXCEPT !.pc = "raised"]
    /\ UNCHANGED <<run_vars, rw, boot, conc, ui, au>>

\* The stream is exhausted: run returns final_messages.
MemReturn ==
    /\ mem.pc = "END"
    /\ mem' = [mem EXCEPT !.returned = mem.final_messages, !.pc = "returned"]
    /\ UNCHANGED <<run_vars, rw, boot, conc, ui, au>>

NextMessages ==
    \/ MemBegin
    \/ MemAnalyze
    \/ MemRetrieveGrade
    \/ MemRewrite
    \/ MemGenerate
    \/ MemReturn

SpecMessages == InitMessages /\ [][NextMessages]_vars

\* ------------------------------------------------------ authenticate_user
\* The Login button calls authenticate_user(email, password or None).  The
\* environment of a call is what Firebase holds for the email and how the
\* LMS endpoint behaves; au holds two calls made in one environment, each
\* with the password typed for it.
NoPassword == [given |-> FALSE, text |-> ""]

\* password or None: an empty password field is passed as None.
PasswordOrNone(typed) ==
    IF typed = "" THEN NoPassword ELSE [given |-> TRUE, text |-> typed]

TypedPasswords == {"", "p", "x"}

\* auth.get_user_by_email and the read of the users document: the account
\* is missing (UserNotFoundError), a call raises another error, the account
\* has no users document, or it has one; a document can lack tenant_id.
FirebaseStates ==
    {[account |-> "not_found", doc |-> "none", tenant_id |-> "none", external |-> FALSE],
     [account |-> "error", doc |-> "none", tenant_id |-> "none", external |-> FALSE],
     [account |-> "found", doc |-> "error", tenant_id |-> "none", external |-> FALSE],
     [account |-> "found", doc |-> "missing", tenant_id |-> "none", external |-> FALSE]}
    \cup {[account |-> "found", doc |-> "exists", tenant_id |-> t, external |-> x] :
             t \in {"t1", "none"}, x \in BOOLEAN}

\* The LMS endpoint: the request raises, the answer is not a 200, the
\* answer lacks a key that is read, or the LMS checks the password against
\* the one it holds.
LmsStates ==
    {[mode |-> m, secret |-> "p"] : m \in {"raises", "status500", "malformed"}}
    \cup {[mode |-> "ok", secret |-> x] : x \in {"p", "x"}}

NoUserData == [user_email |-> "", tenant_id |-> "none", external |-> FALSE]

AuthSuccess(user_data, lms) ==
    [ok |-> TRUE, user_data |-> user_data, error |-> "", lms_contacted |-> lms]

AuthError(message, lms) ==
    [ok |-> FALSE, user_data |-> NoUserData, error |-> message, lms_contacted |-> lms]

\* Step 2 of authenticate_user: the LMS, for a call that got past Firebase.
LmsStep(email, password, lms) ==
    IF ~password.given
    THEN AuthError("Password is required for LMS authentication.", FALSE)
    ELSE CASE lms.mode \in {"raises", "malformed"} ->
                AuthError("Error authenticating with LMS", TRUE)
           [] lms.mode = "status500" ->
                AuthError("User not found in Firebase or LMS.", TRUE)
           [] lms.mode = "ok" ->
                IF password.text = lms.secret
                THEN AuthSuccess([user_email |-> email, tenant_id |-> "lms",
                                  external |-> FALSE], TRUE)
                ELSE AuthError("LMS authentication failed", TRUE)

\* Mutant: the password is required before Firebase is looked at.
authenticate_user_password_first(email, password, fb, lms) ==
    IF ~password.given
    THEN AuthError("Password is required for LMS authentication.", FALSE)
    ELSE IF fb.account = "found" /\ fb.doc = "exists"
    THEN AuthSuccess([user_email |-> email, tenant_id |-> fb.tenant_id,
                      external |-> fb.external], FALSE)
    ELSE LmsStep(email, password, lms)

\* authenticate_user: the result, and whether the LMS endpoint was sent a
\* request.
authenticate_user(email, password, fb, lms) ==
    IF fb.account = "error" \/ (fb.account = "found" /\ fb.doc = "error")
    THEN AuthError("Error checking Firebase user", FALSE)
    ELSE IF fb.account = "found" /\ fb.doc = "exists"
    THEN AuthSuccess([user_email |-> email, tenant_id |-> fb.tenant_id,
                      external |-> fb.external], FALSE)
    ELSE LmsStep(email, password, lms)

Calls == {1, 2}

InitAuth ==
    /\ NoRun
    /\ rw = RwIdle
    /\ boot = BootIdle
    /\ conc = ConcIdle
    /\ ui = UiIdle
    /\ mem = MemIdle
    /\ \E fb \in FirebaseStates, lms \in LmsStates, typed \in [Calls -> TypedPasswords] :
         au = [pc |-> [c \in Calls |-> "form"],
               email |-> "a",
               firebase |-> fb,
               lms |-> lms,
               typed |-> typed,
               result |-> [c \in Calls |-> AuthError("", FALSE)]]

\* The Login button of call c.
AuLogin(c) ==
    /\ au.pc[c] = "form"
    /\ au' = [au EXCEPT
                !.pc[c] = "done",
                !.result[c] = authenticate_user(au.email, PasswordOrNone(au.typed[c]),
                                                au.firebase, au.lms)]
    /\ UNCHANGED <<run_vars, rw, boot, conc, ui, mem>>

NextAuth == \E c \in Calls : AuLogin(c)

SpecAuth == InitAuth /\ [][NextAuth]_vars

\* ================================================================ claims
Last(seq) == seq[Len(seq)]

\* a is b with some elements left out, the others in the same order
RECURSIVE IsSubsequence(_, _)
IsSubsequence(a, b) ==
    IF a = <<>> THEN TRUE
    ELSE IF b = <<>> THEN FALSE
    ELSE IF Head(a) = Head(b) THEN IsSubsequence(Tail(a), Tail(b))
    ELSE IsSubsequence(a, Tail(b))

\* The last min(HistoryWindow, n) turns of a history of n turns, in order.
RecentTurns(h) ==
    LET n == Len(h)
        m == Min(5, n)
    IN  [i \in 1..m |-> h[n - m + i]]

\* C1: in every reachable state of a run attempt_count is between 0 and 2,
\* whatever the rewriter returns.
C1_AttemptCountBounded == attempt_count \in 0..2

\* A run whose two rewrites produced two distinct new queries.
C1_Witness ==
    /\ pc = "END"
    /\ attempt_count = 2
    /\ Len(rewritten_queries) = 2
    /\ rewritten_queries[1] # rewritten_queries[2]

\* The number of nodes the run has executed.
StepsTotal ==
    steps["analyze_input"] + steps["retrieve_documents"] + steps["grade_documents"]
        + steps["rewrite_query"] + steps["generate_response"]

\* C2: every run executes at most 3 retrieve steps, 3 grade steps and 2
\* rewrite steps before the respond step, and reaches the respond step and
\* ends: every step executes one more node, a run that has not ended can
\* always execute its next node, and a run that has ended has executed the
\* respond step exactly once, as its last node.
C2_RunReachesRespond ==
    /\ [](/\ steps["retrieve_documents"] <= 3
          /\ steps["grade_documents"] <= 3
          /\ steps["rewrite_query"] <= 2
          /\ steps["generate_response"] <= 1
          /\ Terminated <=> steps["generate_response"] = 1
          /\ ~Terminated => ENABLED Next)
    /\ [][StepsTotal' = StepsTotal + 1]_vars

\* A run that used the whole budget before it responded.
C2_Witness ==
    /\ pc = "END"
    /\ steps["retrieve_documents"] = 3
    /\ steps["grade_documents"] = 3
    /\ steps["rewrite_query"] = 2

AllPassesEmpty == \A i \in 1..Len(grade_outputs) : grade_outputs[i] = <<>>

\* C3: when the input is classified as a question and every grading pass of
\* the run yields an empty relevant set, respond is reached after exactly 2
\* rewrite steps, with attempt_count = 2 and an empty relevant_docs.
C3_GracefulExhaustion ==
    (steps["generate_response"] = 1 /\ input_type = "question" /\ AllPassesEmpty)
        => /\ steps["rewrite_query"] = 2
           /\ attempt_count = 2
           /\ Len(grade_outputs) = 3
           /\ Len(gen_calls) = 1
           /\ gen_calls[1].relevant_docs = <<>>

\* The retriever returned nothing three times and the run responded.
C3_Witness ==
    /\ pc = "END"
    /\ input_type = "question"
    /\ grade_outputs = <<<<>>, <<>>, <<>>>>
    /\ retrieved_docs = <<>>

\* C4: in every reachable state relevant_docs is an order-preserving
\* subsequence of the current retrieved_docs.
C4_RelevantSubsequence == IsSubsequence(relevant_docs, retrieved_docs)

\* After the second retry, one of two retrieved documents was kept.
C4_Witness ==
    /\ steps["retrieve_documents"] = 3
    /\ steps["grade_documents"] = 3
    /\ Len(retrieved_docs) = 2
    /\ relevant_docs = <<retrieved_docs[2]>>
    /\ retrieved_docs[1] # retrieved_docs[2]

\* C5: when the classifier returns pleasantry, the run goes from classify
\* directly to respond: no retrieve, grade or rewrite step, no embedding,
\* index, grading or rewrite call, attempt_count 0, and respond receives an
\* empty relevant_docs.
C5_PleasantryShortCircuit ==
    input_type = "pleasantry"
        => /\ pc \in {"generate_response", "END", "raised"}
           /\ steps["retrieve_documents"] = 0
           /\ steps["grade_documents"] = 0
           /\ steps["rewrite_query"] = 0
           /\ last_retrieval.embed_calls = 0
           /\ last_retrieval.index_calls = 0
           /\ grade_outputs = <<>>
           /\ grade_results = <<>>
           /\ calls["rewrite"] = 0
           /\ attempt_count = 0
           /\ \A i \in 1..Len(gen_calls) : gen_calls[i].relevant_docs = <<>>

\* A pleasantry that was answered.
C5_Witness ==
    /\ input_type = "pleasantry"
    /\ pc = "END"
    /\ Len(gen_calls) = 1

\* C6: when the last grading pass yielded a non-empty relevant set, the
\* response generator is called with exactly that sequence and the current
\* query, and run returns exactly the text that call returned.
C6_RespondsWithGradedDocs ==
    (pc = "END" /\ grade_outputs # <<>> /\ Last(grade_outputs) # <<>>)
        => /\ Len(gen_calls) = 1
           /\ gen_calls[1].relevant_docs = Last(grade_outputs)
           /\ gen_calls[1].query = query
           /\ gen_calls[1].result.ok
           /\ final_response = gen_calls[1].result.text

\* One of two retrieved documents was graded relevant and the run answered.
C6_Witness ==
    /\ pc = "END"
    /\ Len(retrieved_docs) = 2
    /\ grade_outputs # <<>>
    /\ Len(Last(grade_outputs)) = 1
    /\ final_response = <<"o", "k">>

\* C7 as stated: for every input history, the messages run returns are the
\* input history followed by one user turn and one assistant turn holding
\* the returned answer.
C7_Original ==
    pc = "END"
        => LET n == Len(in_messages)
           IN  /\ Len(final_messages) = n + 2
               /\ SubSeq(final_messages, 1, n) = in_messages
               /\ final_messages[n + 1].role = "user"
               /\ final_messages[n + 2] = AssistantTurn(final_response)

\* C7 amended: the messages run returns are the last min(5, n) turns of the
\* input history followed by one user turn and one assistant turn holding
\* the returned answer.
C7_UpdatedMessages ==
    pc = "END"
        => LET kept == RecentTurns(in_messages)
               m == Len(kept)
           IN  /\ Len(final_messages) = m + 2
               /\ SubSeq(final_messages, 1, m) = kept
               /\ final_messages[m + 1].role = "user"
               /\ final_messages[m + 2] = AssistantTurn(final_response)

\* A run with a history longer than the window returned.
C7_Witness ==
    /\ pc = "END"
    /\ Len(in_messages) = 6
    /\ Len(final_messages) = 7

\* C8: the response generator receives the last min(5, n) turns of the input
\* history in their order; a history of 5 or fewer turns is received whole.
C8_HistoryTruncation ==
    \A i \in 1..Len(gen_calls) :
        /\ gen_calls[i].messages = RecentTurns(in_messages)
        /\ Len(in_messages) <= 5 => gen_calls[i].messages = in_messages
        /\ gen_calls[i].prompt.history =
             IF in_messages = <<>> THEN <<"No prior conversation.">>
             ELSE JoinTurns(RecentTurns(in_messages))

\* The generator was called in a run with a history longer than the window.
C8_Witness ==
    /\ Len(gen_calls) = 1
    /\ Len(in_messages) = 6
    /\ gen_calls[1].messages[1] = HistoryTurn(2)

\* The positions of the documents whose own grading call succeeded with the
\* verdict 'relevant'.
RelevantPositions ==
    {i \in 1..Len(grade_results) : grade_results[i] = Parsed([grade |-> "relevant"])}

\* The k-th smallest element of a set of numbers.
Nth(S, k) == CHOOSE i \in S : Cardinality({j \in S : j < i}) = k - 1

\* A grading pass has just been executed.
JustGraded ==
    /\ pc \in {"rewrite_query", "generate_response"}
    /\ steps["grade_documents"] >= 1
    /\ Len(grade_results) = Len(retrieved_docs)

\* C9: after a grading pass the relevant set is exactly the documents whose
\* own call succeeded with verdict 'relevant', in retrieval order, whichever
\* other calls failed; the grader component's own pass gives the same set; no
\* exception leaves the grading step.
C9_GradingFailureIsolation ==
    /\ JustGraded
         => /\ Len(relevant_docs) = Cardinality(RelevantPositions)
            /\ \A k \in 1..Len(relevant_docs) :
                 relevant_docs[k] = retrieved_docs[Nth(RelevantPositions, k)]
            /\ grader_grade_documents(retrieved_docs, grade_results) = relevant_docs
    /\ pc = "raised" => steps["generate_response"] = 1

\* The first document's call failed and the second was graded relevant.
C9_Witness ==
    /\ JustGraded
    /\ Len(retrieved_docs) = 2
    /\ grade_results[1] = Failed
    /\ grade_results[2] = Parsed([grade |-> "relevant"])
    /\ relevant_docs = <<retrieved_docs[2]>>

\* C10: whenever the rewrite completion call succeeds, rewrite_query returns
\* a string different from the query; when the stripped output equals the
\* query case-insensitively, the result is the query followed by
\* " in simple terms".
C10_RewriteNoOpGuard ==
    (rw.pc = "done" /\ rw.llm.ok)
        => /\ rw.result # rw.query
           /\ Lower(Strip(rw.llm.text)) = Lower(rw.query)
                => /\ rw.result = rw.query \o Suffix
                   /\ Len(rw.result) = Len(rw.query) + 16

\* The model echoed the query in another case, with a trailing space.
C10_Witness ==
    /\ rw.pc = "done"
    /\ rw.query = <<"q">>
    /\ rw.llm = Text(<<"Q", " ">>)
    /\ rw.result = <<"q">> \o Suffix

\* The generator's completion call of this run failed.
GeneratorFailed == gen_calls # <<>> /\ ~Last(gen_calls).result.ok

\* C11: failures of the classification, embedding, index-search, grading and
\* rewrite calls never abort a run: a failed classification yields
\* 'question' and the run retrieves, a failed retrieval yields no documents
\* and the run grades, a failed grading call only leaves its document out, a
\* failed rewrite leaves the query as it was and the run retrieves again; a
\* run that has not ended always has a next step, and an exception leaves
\* run only from the generator's own call.
C11_FailuresAbsorbed ==
    /\ pc = "raised" => (trace.node = "generate_response" /\ GeneratorFailed)
    /\ (trace.node = "analyze_input" /\ ~trace.results[1].ok)
          => (input_type = "question" /\ pc = "retrieve_documents")
    /\ (trace.node = "retrieve_documents" /\ last_retrieval.failed)
          => (retrieved_docs = <<>> /\ pc = "grade_documents")
    /\ trace.node = "grade_documents"
          => /\ Len(relevant_docs) = Cardinality(RelevantPositions)
             /\ pc \in {"rewrite_query", "generate_response"}
    /\ (trace.node = "rewrite_query" /\ trace.results = <<TextFailed>>)
          => (query = trace.query /\ pc = "retrieve_documents")
    /\ ~Terminated => ENABLED Next

\* A run whose classification, both rewrites and last retrieval failed, and
\* which returned an answer all the same.
C11_Witness ==
    /\ pc = "END"
    /\ attempt_count = MaxAttempts
    /\ rewritten_queries = <<>>
    /\ last_retrieval.failed
    /\ final_response # NoValidResponse

\* C12: when the generator's completion call fails, run returns a fixed
\* fallback message as its answer and no exception leaves run.
C12_GeneratorFailureFallback ==
    GeneratorFailed => (pc = "END" /\ final_response = NoValidResponse)

\* C13 as stated: a retrieval attempt issues exactly one embedding call and
\* exactly one index search.
C13_Original ==
    steps["retrieve_documents"] >= 1
        => (last_retrieval.embed_calls = 1 /\ last_retrieval.index_calls = 1)

\* C13: a retrieval attempt issues one or two embedding calls (two when the
\* first search succeeded with no match and the retriever asked again for
\* two more), and never more index searches than embedding calls (none when
\* the only embedding call failed); a run makes at most 3 retrieval
\* attempts, hence at most 6 calls of each kind.
C13_RetrievalCalls ==
    /\ steps["retrieve_documents"] >= 1
          => /\ last_retrieval.embed_calls \in 1..2
             /\ last_retrieval.index_calls \in 0..last_retrieval.embed_calls
             /\ last_retrieval.embed_calls = 2 => last_retrieval.index_calls >= 1
    /\ steps["retrieve_documents"] <= MaxAttempts + 1

\* The third retrieval attempt of a run searched twice and found nothing.
C13_Witness ==
    /\ steps["retrieve_documents"] = MaxAttempts + 1
    /\ last_retrieval.embed_calls = 2
    /\ last_retrieval.index_calls = 2
    /\ ~last_retrieval.failed
    /\ retrieved_docs = <<>>

\* C15: the generator is called at most once in a run; a run has ended
\* exactly when that call has been made, whichever path led to it, and
\* nothing is executed after it.
C15_GeneratorOnceAndLast ==
    /\ Len(gen_calls) <= 1
    /\ calls["generate"] = Len(gen_calls)
    /\ steps["generate_response"] = Len(gen_calls)
    /\ Terminated <=> Len(gen_calls) = 1
    /\ Len(gen_calls) = 1 => (trace.node = "generate_response" /\ ~ENABLED Next)

\* A run that used up its retries and ended with the generator's call on
\* no relevant documents.
C15_Witness ==
    /\ pc = "END"
    /\ attempt_count = MaxAttempts
    /\ Len(gen_calls) = 1
    /\ gen_calls[1].relevant_docs = <<>>
    /\ input_type = "question"

\* C17: after every grading pass the next step is respond when a document
\* was kept, whatever attempt_count is; otherwise rewrite when
\* attempt_count < 2; otherwise respond with nothing kept.  A rewrite step
\* is executed only right after a grading pass that kept nothing, with
\* attempt_count < 2.
C17_TransitionAfterGrading ==
    /\ [](trace.node = "grade_documents"
            => pc = IF relevant_docs # <<>> THEN "generate_response"
                    ELSE IF attempt_count < 2 THEN "rewrite_query"
                    ELSE "generate_response")
    /\ [][steps'["rewrite_query"] # steps["rewrite_query"]
            => /\ trace.node = "grade_documents"
               /\ relevant_docs = <<>>
               /\ attempt_count < 2]_vars

\* A grading pass after the second rewrite kept a document: respond.
C17_Witness ==
    /\ trace.node = "grade_documents"
    /\ attempt_count = 2
    /\ relevant_docs # <<>>
    /\ pc = "generate_response"

C19_RewriteFailure ==
    /\ [][(pc = "rewrite_query" /\ trace'.results = <<TextFailed>>)
            => /\ query' = query
               /\ rewritten_queries' = rewritten_queries
               /\ attempt_count' = attempt_count + 1]_vars
    /\ [][(trace.node = "rewrite_query" /\ trace.results = <<TextFailed>>)
            => last_retrieval'.query = last_retrieval.query]_vars

\* The retrieval after two failed rewrites asks for the original query.
C19_Witness ==
    /\ trace.node = "retrieve_documents"
    /\ steps["rewrite_query"] = 2
    /\ attempt_count = 2
    /\ rewritten_queries = <<>>
    /\ last_retrieval.query = in_query

\* C20: a rewrite step makes exactly one completion call, whatever the
\* query and whatever the call yields: the inner graph executes its node
\* once and ends; a run makes at most 2 such calls.
C20_OneRewriteCall ==
    /\ calls["rewrite"] = steps["rewrite_query"]
    /\ calls["rewrite"] <= 2
    /\ trace.node = "rewrite_query" => Len(trace.results) = 1
    /\ \A llms \in [1..InnerMaxAttempts -> RewriterResults] :
          LET final == RewriteRunState(query, llms)
          IN  /\ final.attempt_count = 1
              /\ Len(final.rewritten_queries) = 1
              /\ should_rewrite(final) = "end"

\* A run that rewrote twice, each time with one call.
C20_Witness ==
    /\ pc = "END"
    /\ calls["rewrite"] = 2
    /\ Len(rewritten_queries) = 2

\* A required setting is missing.
RequiredSettings ==
    {"PINECONE_API_KEY", "OPENAI_API_KEY", "PINECONE_INDEX_HOST",
     "FIREBASE_CREDENTIALS_PATH"}

\* C16: when the Pinecone API key, the OpenAI API key, the Pinecone index
\* host or the Firebase credentials path is missing at startup,
\* initialization fails at once with an error: the application gets no
\* further than its failed start, so no run begins.
C16_MissingSettingFailsStartup ==
    ((\E name \in RequiredSettings : Falsy(boot.env[name])) /\ boot.stage # "start")
        => (boot.stage = "failed" /\ boot.error # "")

\* The nodes of a run executed one after the other on a list of its own,
\* with the given results of their external calls.
RECURSIVE Replay(_, _, _)
Replay(st, lst, log) ==
    IF log = <<>> THEN [st |-> st, lst |-> lst]
    ELSE LET n == ConcStep(st, lst, Head(log))
         IN  Replay(n.st, n.lst, Tail(log))

\* The Pipeline State of run r in c, its list looked up.
ViewOf(c, r) ==
    [st |-> c.runs[r], lst |-> c.heap[c.runs[r].rewritten_queries]]

\* C14: with two runs interleaved on one CRAGPipeline, the state of each
\* run (its rewritten_queries list included) is at every moment the state
\* the run has when it executes alone with the same results of its external
\* calls, so it returns the same answer and the same updated messages; and
\* a step of one run leaves the state of the other as it was.
C14_RunsIndependent ==
    /\ [](\A r \in RunIds : ViewOf(conc, r) = Replay(ConcInputs(r), <<>>, conc.log[r]))
    /\ [][\A r \in RunIds :
            conc'.log[r] = conc.log[r] => ViewOf(conc', r) = ViewOf(conc, r)]_vars

\* Both runs have returned, and both rewrote their query on the way.
C14_Witness ==
    /\ \A r \in RunIds : conc.runs[r].pc = "END"
    /\ Len(conc.heap[conc.runs[1].rewritten_queries]) = 2
    /\ Len(conc.heap[conc.runs[2].rewritten_queries]) = 1
    /\ conc.runs[1].final_response # NoValidResponse
    /\ Len(conc.runs[2].final_messages) = 3

\* C21: a grading pass issues one grading call per retrieved document, in
\* retrieval order, and none a second time; with no retrieved document it
\* issues no call and the relevant set is empty.
C21_GradingCalls ==
    trace.node = "grade_documents"
        => /\ trace.docs = retrieved_docs
           /\ Len(grade_results) = Len(trace.docs)
           /\ retrieved_docs = <<>> => (trace.docs = <<>> /\ relevant_docs = <<>>)

\* A pass over two documents whose first call failed.
C21_Witness ==
    /\ trace.node = "grade_documents"
    /\ Len(retrieved_docs) = 2
    /\ grade_results[1] = Failed
    /\ Len(trace.docs) = 2

\* C22: the classifier makes one completion call and its result is always
\* 'question' or 'pleasantry': 'pleasantry' when the call yields that label,
\* 'question' for the label 'question', for a failed call, for output
\* without the key, and for any other label.
C22_ClassifierTotal ==
    /\ input_type \in {"", "question", "pleasantry"}
    /\ steps["analyze_input"] >= 1 => (input_type # "" /\ calls["classify"] = 1)
    /\ trace.node = "analyze_input"
          => /\ Len(trace.results) = 1
             /\ input_type = IF trace.results[1] = Parsed([type |-> "pleasantry"])
                              THEN "pleasantry" ELSE "question"

\* The call yielded a label outside the two values.
C22_Witness ==
    /\ trace.node = "analyze_input"
    /\ trace.results[1] = Parsed([type |-> "greeting"])
    /\ input_type = "question"
    /\ pc = "retrieve_documents"

\* C23: input_type is empty until the classify step, which sets it, and no
\* other step changes it.
C23_InputTypeWrittenOnce ==
    /\ [](steps["analyze_input"] = 0 => input_type = "")
    /\ [][/\ pc = "analyze_input" => input_type' # ""
          /\ pc # "analyze_input" => input_type' = input_type]_vars

\* A run that went through every kind of step.
C23_Witness ==
    /\ pc = "END"
    /\ steps["rewrite_query"] = 2
    /\ steps["retrieve_documents"] = 3
    /\ input_type = "question"

\* C24: only the rewrite step changes query, and it sets query to what the
\* rewriter returned for it (which is the query itself when the call
\* failed).
C24_QueryChangedByRewriteOnly ==
    [][/\ pc # "rewrite_query" => query' = query
       /\ (pc = "rewrite_query" /\ trace'.results # <<>>)
            => query' = rewrite_query(query, trace'.results[1])
       /\ (pc = "rewrite_query" /\ trace'.results = <<>>) => query' = query]_vars

\* A run with one rewrite that changed the query and one that did not.
C24_Witness ==
    /\ pc = "END"
    /\ attempt_count = 2
    /\ Len(rewritten_queries) = 1
    /\ query # in_query

\* C25: no step changes namespace or metadata_filter, and every retrieval
\* passes the retriever the run's namespace and metadata_filter.
C25_ScopeConstant ==
    /\ [](steps["retrieve_documents"] >= 1
            => /\ last_retrieval.namespace = namespace
               /\ last_retrieval.metadata_filter = metadata_filter)
    /\ [][namespace' = namespace /\ metadata_filter' = metadata_filter]_vars

\* The third retrieval of a run that was given a namespace and a filter.
C25_Witness ==
    /\ steps["retrieve_documents"] = 3
    /\ trace.node = "retrieve_documents"
    /\ last_retrieval.namespace = "ns"
    /\ last_retrieval.metadata_filter = {<<"tenant_id", "t1">>}

\* C26: rewritten_queries starts empty; a step either leaves it as it is
\* or is a rewrite step that changed the query and appended the new query;
\* so it is never longer than attempt_count and, when not empty, ends with
\* the current query.
C26_RewrittenQueriesLog ==
    /\ [](/\ steps["analyze_input"] = 0 => rewritten_queries = <<>>
          /\ Len(rewritten_queries) <= attempt_count
          /\ rewritten_queries # <<>> => Last(rewritten_queries) = query)
    /\ [][IF pc = "rewrite_query" /\ query' # query
          THEN rewritten_queries' = Append(rewritten_queries, query')
          ELSE rewritten_queries' = rewritten_queries]_vars

\* Two rewrites, each of which changed the query.
C26_Witness ==
    /\ Len(rewritten_queries) = 2
    /\ attempt_count = 2
    /\ rewritten_queries[1] # rewritten_queries[2]
    /\ pc = "grade_documents"

\* C27: attempt_count starts at 0, every rewrite step adds exactly 1 to it
\* and no other step changes it, so it always equals the number of rewrite
\* steps executed.
C27_AttemptCountCountsRewrites ==
    /\ [](/\ steps["analyze_input"] = 0 => attempt_count = 0
          /\ attempt_count = steps["rewrite_query"])
    /\ [][/\ pc = "rewrite_query" => attempt_count' = attempt_count + 1
          /\ pc # "rewrite_query" => attempt_count' = attempt_count]_vars

\* Respond time after two rewrite steps, one of which left the text as it
\* was.
C27_Witness ==
    /\ trace.node = "generate_response"
    /\ steps["rewrite_query"] = 2
    /\ attempt_count = 2
    /\ Len(rewritten_queries) = 1

\* The user turn run has appended to the history it returns.
AppendedUserTurn == final_messages[Len(final_messages) - 1]

\* C29 as stated: the appended user turn holds the final query, which is
\* the caller's utterance only when no rewrite changed the query and is
\* otherwise the last rewritten query.
C29_Original ==
    pc = "END"
        => /\ AppendedUserTurn = UserTurn(query)
           /\ AppendedUserTurn.content = in_query <=> rewritten_queries = <<>>
           /\ rewritten_queries # <<>>
                => AppendedUserTurn.content = Last(rewritten_queries)

\* C29: the appended user turn holds the final query: the caller's
\* utterance when no rewrite changed the query, otherwise the last
\* rewritten query (which a second rewrite can make the caller's
\* utterance again).
C29_UserTurnHoldsFinalQuery ==
    pc = "END"
        => /\ AppendedUserTurn = UserTurn(query)
           /\ rewritten_queries = <<>> => AppendedUserTurn.content = in_query
           /\ rewritten_queries # <<>>
                => AppendedUserTurn.content = Last(rewritten_queries)

\* Two rewrites changed the query, the second one back to what the caller
\* typed.
C29_Witness ==
    /\ pc = "END"
    /\ Len(rewritten_queries) = 2
    /\ rewritten_queries[1] # in_query
    /\ AppendedUserTurn.content = in_query

\* C28: every pipeline run issued for a logged-in user whose record has a
\* tenant_id is given a metadata_filter that holds tenant_id == that user's
\* tenant_id, whatever login, logout, settings, clear and chat actions came
\* before.
C28_TenantScopedRuns ==
    (ui.last_run.issued /\ ui.last_run.user.tenant_id # "none")
        => <<"tenant_id", ui.last_run.user.tenant_id>> \in ui.last_run.metadata_filter

\* C30: the messages a run returns are the last 5 of the messages it was
\* given plus two, so at most 7, however many runs came before; the session
\* keeps them for the next run.
C30_ReturnedHistoryBounded ==
    (ui.last_run.issued /\ ~ui.last_run.raised)
        => /\ Len(ui.last_run.returned) <= 7
           /\ Len(ui.last_run.returned) = Min(5, Len(ui.last_run.messages)) + 2
           /\ ui.messages = ui.last_run.returned

\* A run that was given the 7 messages of the run before, two "exit" turns
\* added, and returned 7.
C30_Witness ==
    /\ ui.last_run.issued
    /\ ~ui.last_run.raised
    /\ Len(ui.last_run.messages) = 9
    /\ Len(ui.last_run.returned) = 7

\* C31: run never changes the list object the caller passes as messages:
\* whenever the caller passed a list, its contents are those it had at the
\* call, at every step of the run and after a failure too; and the list
\* run returns is another object than the caller's.
C31_CallerListUntouched ==
    /\ (mem.pc # "idle" /\ mem.caller # None) =>
          mem.heap[mem.caller] = mem.before
    /\ (mem.pc = "returned" /\ mem.caller # None) =>
          mem.returned \notin {None, mem.caller}

\* a returned run whose caller passed one to five turns, so that the
\* filtered list the two turns are added to is the caller's own object
C31_Witness ==
    /\ mem.pc = "returned"
    /\ mem.caller # None
    /\ mem.before # <<>>
    /\ mem.filtered = mem.caller
    /\ mem.heap[mem.returned] # mem.before

\* the turns the "exit" branch of the chat input appends, n times over
ExitTurns(n) ==
    [i \in 1..(2 * n) |->
        IF i % 2 = 1 THEN UserTurn(<<"e", "x", "i", "t">>)
        ELSE AssistantTurn(<<"G", "o", "o", "d", "b", "y", "e", "!">>)]

\* C32 as stated: a run is issued only for a session with a user that a
\* login has set since the last logout, and the first run after a login is
\* given an empty messages history.  Violated: "exit" typed after the login
\* appends two turns to the session's messages, and the first run is given
\* them.
C32_Original ==
    ui.last_run.issued =>
        /\ ui.last_run.user \in Users
        /\ ui.last_run.since # "none"
        /\ (ui.last_run.since = "fresh" => ui.last_run.messages = <<>>)

\* C32, amended: a run is issued only for a session whose user a login has
\* set since the session began or was last logged out; a session without a
\* user has issued no run and holds no messages; and the first run after a
\* login is given nothing from before the login: its messages are empty or
\* are the "exit"/"Goodbye!" turns typed since that login.
C32_RunsOnlyForLoggedInSession ==
    /\ ui.last_run.issued =>
          /\ "user" \in ui.keys
          /\ ui.last_run.user \in Users
          /\ ui.last_run.user = ui.stored
          /\ ui.last_run.since # "none"
          /\ (ui.last_run.since = "fresh" =>
                 \E n \in 0..MaxSessionMessages : ui.last_run.messages = ExitTurns(n))
    /\ "user" \notin ui.keys =>
          /\ ~ui.last_run.issued
          /\ ui.messages = <<>>
          /\ ui.since_login = "none"

\* the first run after a login that followed a logout (only a logout
\* leaves a tenant's user with an empty metadata_filter), given the turns
\* of an "exit" typed since that login
C32_Witness ==
    /\ ui.last_run.issued
    /\ ui.last_run.since = "fresh"
    /\ ui.last_run.user.tenant_id # "none"
    /\ ui.last_run.metadata_filter = {}
    /\ ui.last_run.messages = ExitTurns(1)

\* the Firebase lookup finds the account and its users document
HasStoredRecord(fb) == fb.account = "found" /\ fb.doc = "exists"

\* C33: for an email with a Firebase account and a stored user record, two
\* calls of authenticate_user that differ only in the password (none
\* included) return the same successful user_data, built from the record,
\* and neither sends a request to the LMS; and a call sends a request to
\* the LMS only when the lookup found no account or no record and a
\* password was supplied.
C33_PasswordIndependent ==
    /\ (HasStoredRecord(au.firebase) /\ \A c \in Calls : au.pc[c] = "done") =>
          /\ au.result[1] = au.result[2]
          /\ \A c \in Calls :
               /\ au.result[c].ok
               /\ au.result[c].user_data =
                     [user_email |-> au.email, tenant_id |-> au.firebase.tenant_id,
                      external |-> au.firebase.external]
               /\ ~au.result[c].lms_contacted
    /\ au.pc # <<>> =>
          \A c \in Calls :
             (au.pc[c] = "done" /\ au.result[c].lms_contacted) =>
                /\ au.firebase.account = "not_found"
                   \/ (au.firebase.account = "found" /\ au.firebase.doc = "missing")
                /\ au.typed[c] # ""

\* both calls are done for an email with a stored record, one without a
\* password and one with a password the LMS would reject
C33_Witness ==
    /\ au.pc # <<>>
    /\ HasStoredRecord(au.firebase)
    /\ \A c \in Calls : au.pc[c] = "done"
    /\ au.typed[1] = ""
    /\ au.typed[2] = "x"
    /\ au.lms = [mode |-> "ok", secret |-> "p"]
    /\ au.result[2].ok
====
